---- MODULE Spec2Model ----
(***************************************************************************)
(* The example scripts of pulsar-hydrogen-next (src/examples/*.py) as a    *)
(* state machine: one run of one script, statement by statement, with the  *)
(* namespace the statements bind, the library-wide settings they write and *)
(* the payloads they hand to the display sink.                             *)
(***************************************************************************)
EXTENDS Integers, Sequences, FiniteSets, TLC

VARIABLES
    script,     \* the script being run
    pc,         \* index in Program(script) of the statement to run next
    status,     \* "running", "done" (ran to the end) or "error" (uncaught exception)
    ns,         \* the script's namespace: name -> value
    out,        \* what has been handed to the display sink, in order
    globals,    \* library-wide settings: pandas options, matplotlib backend, pyplot figure
    attempts,   \* history: how many times each statement was started
    raised,     \* history: the exceptions raised, in order
    installed,  \* environment: the packages that can be imported
    net,        \* environment: "up" or "down", whether the remote URL can be reached
    remote      \* environment: the table served at the remote URL

vars == <<script, pc, status, ns, out, globals, attempts, raised, installed, net, remote>>

(***************************************************************************)
(* Python values.  Every value carries its type as the name of its only    *)
(* field, so that a number and a string are never confused.                *)
(***************************************************************************)
StrV(s) == [str |-> s]
IntV(n) == [int |-> n]
\* a float literal, as the fraction num/den (6.29 is FloatV(629, 100))
FloatV(num, den) == [float |-> <<num, den>>]
BoolV(b) == [bool |-> b]
None == [none |-> TRUE]
\* a dict: a mapping from string keys to values
Dict(f) == [dict |-> f]
\* a list: a sequence of values
List(s) == [list |-> s]

IsStr(v) == DOMAIN v = {"str"}
IsNumber(v) == DOMAIN v = {"int"} \/ DOMAIN v = {"float"}
IsDict(v) == DOMAIN v = {"dict"}
IsList(v) == DOMAIN v = {"list"}
Keys(d) == DOMAIN d.dict
HasKey(d, k) == IsDict(d) /\ k \in Keys(d)
Get(d, k) == d.dict[k]
Items(l) == l.list
Range(s) == {s[i] : i \in DOMAIN s}

VegaLiteSchema == "https://vega.github.io/schema/vega-lite/v5.json"
VegaSchema == "https://vega.github.io/schema/vega/v5.json"
VegaLiteMime == "application/vnd.vegalite.v5+json"
VegaMime == "application/vnd.vega.v5+json"

(***************************************************************************)
(* ex-vega.py: the four literal chart documents.                           *)
(***************************************************************************)
BarRow(c, v) == Dict("category" :> StrV(c) @@ "value" :> IntV(v))
XYRow(x, y) == Dict("x" :> IntV(x) @@ "y" :> IntV(y))
PieRow(i, f) == Dict("id" :> IntV(i) @@ "field" :> IntV(f))
PointRow(x, y, l) == Dict("x" :> IntV(x) @@ "y" :> IntV(y) @@ "label" :> StrV(l))
Channel(f, t) == Dict("field" :> StrV(f) @@ "type" :> StrV(t))
TitledChannel(f, t, title) ==
    Dict("field" :> StrV(f) @@ "type" :> StrV(t) @@ "title" :> StrV(title))
Signal(s) == Dict("signal" :> StrV(s))
NamedValue(n, v) == Dict("name" :> StrV(n) @@ "value" :> v)

vegalite_spec_missing_schema ==
    Dict("description" :> StrV("A simple bar chart")
      @@ "data" :> Dict("values" :> List(<<
            BarRow("A", 28), BarRow("B", 55), BarRow("C", 43),
            BarRow("D", 91), BarRow("E", 81) >>))
      @@ "mark" :> StrV("bar")
      @@ "encoding" :> Dict(
            "x" :> Channel("category", "nominal")
         @@ "y" :> Channel("value", "quantitative")
         @@ "color" :> Channel("category", "nominal")))

vegalite_spec_short ==
    Dict("$schema" :> StrV(VegaLiteSchema)
      @@ "description" :> StrV("A simple bar chart")
      @@ "data" :> Dict("values" :> List(<<
            BarRow("A", 28), BarRow("B", 55), BarRow("C", 43),
            BarRow("D", 91) >>))
      @@ "mark" :> StrV("bar")
      @@ "encoding" :> Dict(
            "x" :> Channel("category", "nominal")
         @@ "y" :> Channel("value", "quantitative")
         @@ "color" :> Channel("category", "nominal")))

vegalite_spec ==
    Dict("$schema" :> StrV(VegaLiteSchema)
      @@ "description" :> StrV("A simple bar chart")
      @@ "data" :> Dict("values" :> List(<<
            BarRow("A", 28), BarRow("B", 55), BarRow("C", 43),
            BarRow("D", 91), BarRow("E", 81) >>))
      @@ "mark" :> StrV("bar")
      @@ "encoding" :> Dict(
            "x" :> Channel("category", "nominal")
         @@ "y" :> Channel("value", "quantitative")
         @@ "color" :> Channel("category", "nominal")))

line_spec ==
    Dict("$schema" :> StrV(VegaLiteSchema)
      @@ "description" :> StrV("A line chart with points")
      @@ "data" :> Dict("values" :> List(<<
            XYRow(0, 0), XYRow(1, 2), XYRow(2, 1),
            XYRow(3, 4), XYRow(4, 3), XYRow(5, 6) >>))
      @@ "mark" :> Dict("type" :> StrV("line") @@ "point" :> BoolV(TRUE))
      @@ "encoding" :> Dict(
            "x" :> Channel("x", "quantitative")
         @@ "y" :> Channel("y", "quantitative")))

vega_spec ==
    Dict("$schema" :> StrV(VegaSchema)
      @@ "description" :> StrV("A basic pie chart")
      @@ "width" :> IntV(200)
      @@ "height" :> IntV(200)
      @@ "autosize" :> StrV("none")
      @@ "signals" :> List(<<
            NamedValue("startAngle", IntV(0)),
            NamedValue("endAngle", FloatV(629, 100)),
            NamedValue("padAngle", FloatV(2, 100)),
            NamedValue("innerRadius", IntV(0)),
            NamedValue("sort", BoolV(TRUE)) >>)
      @@ "data" :> List(<<
            Dict("name" :> StrV("table")
              @@ "values" :> List(<<
                    PieRow(1, 4), PieRow(2, 6), PieRow(3, 10),
                    PieRow(4, 3), PieRow(5, 7) >>)
              @@ "transform" :> List(<<
                    Dict("type" :> StrV("pie")
                      @@ "field" :> StrV("field")
                      @@ "startAngle" :> Signal("startAngle")
                      @@ "endAngle" :> Signal("endAngle")
                      @@ "sort" :> Signal("sort")) >>)) >>)
      @@ "scales" :> List(<<
            Dict("name" :> StrV("color")
              @@ "type" :> StrV("ordinal")
              @@ "domain" :> Dict("data" :> StrV("table") @@ "field" :> StrV("id"))
              @@ "range" :> Dict("scheme" :> StrV("category20"))) >>)
      @@ "marks" :> List(<<
            Dict("type" :> StrV("arc")
              @@ "from" :> Dict("data" :> StrV("table"))
              @@ "encode" :> Dict(
                    "enter" :> Dict(
                        "fill" :> Dict("scale" :> StrV("color") @@ "field" :> StrV("id"))
                     @@ "x" :> Signal("width / 2")
                     @@ "y" :> Signal("height / 2"))
                 @@ "update" :> Dict(
                        "startAngle" :> Dict("field" :> StrV("startAngle"))
                     @@ "endAngle" :> Dict("field" :> StrV("endAngle"))
                     @@ "padAngle" :> Signal("padAngle")
                     @@ "innerRadius" :> Signal("innerRadius")
                     @@ "outerRadius" :> Signal("width / 2")))) >>))

scatter_spec_label_quantitative ==
    Dict("$schema" :> StrV(VegaLiteSchema)
      @@ "description" :> StrV("Scatter plot with tooltips")
      @@ "data" :> Dict("values" :> List(<<
            PointRow(1, 2, "Point A"), PointRow(2, 5, "Point B"),
            PointRow(3, 3, "Point C"), PointRow(4, 8, "Point D"),
            PointRow(5, 6, "Point E") >>))
      @@ "mark" :> Dict("type" :> StrV("circle") @@ "size" :> IntV(100))
      @@ "encoding" :> Dict(
            "x" :> TitledChannel("x", "quantitative", "X Axis")
         @@ "y" :> TitledChannel("y", "quantitative", "Y Axis")
         @@ "color" :> Channel("label", "nominal")
         @@ "tooltip" :> List(<<
                Channel("label", "quantitative"),
                Channel("x", "quantitative"),
                Channel("y", "quantitative") >>)))

scatter_spec_tooltip_z ==
    Dict("$schema" :> StrV(VegaLiteSchema)
      @@ "description" :> StrV("Scatter plot with tooltips")
      @@ "data" :> Dict("values" :> List(<<
            PointRow(1, 2, "Point A"), PointRow(2, 5, "Point B"),
            PointRow(3, 3, "Point C"), PointRow(4, 8, "Point D"),
            PointRow(5, 6, "Point E") >>))
      @@ "mark" :> Dict("type" :> StrV("circle") @@ "size" :> IntV(100))
      @@ "encoding" :> Dict(
            "x" :> TitledChannel("x", "quantitative", "X Axis")
         @@ "y" :> TitledChannel("y", "quantitative", "Y Axis")
         @@ "color" :> Channel("label", "nominal")
         @@ "tooltip" :> List(<<
                Channel("label", "nominal"),
                Channel("x", "quantitative"),
                Channel("z", "quantitative") >>)))

scatter_spec ==
    Dict("$schema" :> StrV(VegaLiteSchema)
      @@ "description" :> StrV("Scatter plot with tooltips")
      @@ "data" :> Dict("values" :> List(<<
            PointRow(1, 2, "Point A"), PointRow(2, 5, "Point B"),
            PointRow(3, 3, "Point C"), PointRow(4, 8, "Point D"),
            PointRow(5, 6, "Point E") >>))
      @@ "mark" :> Dict("type" :> StrV("circle") @@ "size" :> IntV(100))
      @@ "encoding" :> Dict(
            "x" :> TitledChannel("x", "quantitative", "X Axis")
         @@ "y" :> TitledChannel("y", "quantitative", "Y Axis")
         @@ "color" :> Channel("label", "nominal")
         @@ "tooltip" :> List(<<
                Channel("label", "nominal"),
                Channel("x", "quantitative"),
                Channel("y", "quantitative") >>)))

(***************************************************************************)
(* Expressions and statements.  A statement records the line it stands on, *)
(* the names it reads (uses) and what it does (op and its operands).       *)
(***************************************************************************)
Lit(v) == [lit |-> v]
Var(n) == [var |-> n]
\* the dict display {mime: name, ...} of ex-vega.py's display calls
Bundle(f) == [bundle |-> f]

\* a call fn(literal), as in Markdown("""...""")
Call(fn, v) == [call |-> fn, arg |-> v]

Names(e) ==
    IF "var" \in DOMAIN e THEN {e.var}
    ELSE IF "bundle" \in DOMAIN e THEN Range(e.bundle)
    ELSE IF "call" \in DOMAIN e THEN {e.call}
    ELSE {}

Eval(e, env) ==
    IF "var" \in DOMAIN e THEN env[e.var]
    ELSE IF "bundle" \in DOMAIN e
         THEN Dict([m \in DOMAIN e.bundle |-> env[e.bundle[m]]])
    ELSE IF "call" \in DOMAIN e THEN [object |-> e.call, arg |-> e.arg]
    ELSE e.lit

ImportStmt(line, package, binds) ==
    [op |-> "import", line |-> line, uses |-> {}, package |-> package, binds |-> binds]
AssignStmt(line, target, e) ==
    [op |-> "assign", line |-> line, uses |-> Names(e), target |-> target, expr |-> e]
DisplayStmt(line, e, raw) ==
    [op |-> "display", line |-> line, uses |-> {"display"} \cup Names(e),
     expr |-> e, raw |-> raw]
ReadCsvStmt(line, target, url) ==
    [op |-> "read_csv", line |-> line, uses |-> {"pd"} \cup Names(url),
     target |-> target, url |-> url]
FigureStmt(line, target, z) ==
    [op |-> "figure", line |-> line, uses |-> {"go", z}, target |-> target, z |-> z]
UpdateLayoutStmt(line, obj, kwargs) ==
    [op |-> "update_layout", line |-> line,
     uses |-> {obj} \cup UNION {Names(kwargs[k]) : k \in DOMAIN kwargs},
     obj |-> obj, kwargs |-> kwargs]
SetOptionStmt(line, option, value) ==
    [op |-> "set_option", line |-> line, uses |-> {"pd"},
     option |-> option, value |-> value]
UseStmt(line, backend) ==
    [op |-> "use", line |-> line, uses |-> {"matplotlib"}, backend |-> backend]
LinspaceStmt(line, target, start, stop, num) ==
    [op |-> "linspace", line |-> line, uses |-> {"np"}, target |-> target,
     start |-> start, stop |-> stop, num |-> num]
PlotStmt(line, x) ==
    [op |-> "plot", line |-> line, uses |-> {"plt", "np", x}, x |-> x]
ShowStmt(line) ==
    [op |-> "show", line |-> line, uses |-> {"plt"}]
LoadDatasetStmt(line, target, name) ==
    [op |-> "load_dataset", line |-> line, uses |-> {"data"},
     target |-> target, name |-> name]
ChartStmt(line, target, frame, mark, encoding) ==
    [op |-> "chart", line |-> line, uses |-> {"alt", frame}, target |-> target,
     frame |-> frame, mark |-> mark, encoding |-> encoding]
ExprStmt(line, name) ==
    [op |-> "expr", line |-> line, uses |-> {name}, name |-> name]

(***************************************************************************)
(* The scripts.                                                            *)
(***************************************************************************)
Prog_vega_pie_as_vegalite ==
    << ImportStmt(5, "IPython", {"display"}),
       AssignStmt(7, "vegalite_spec", Lit(vegalite_spec)),
       DisplayStmt(27, Bundle(VegaLiteMime :> "vegalite_spec"), TRUE),
       AssignStmt(30, "line_spec", Lit(line_spec)),
       DisplayStmt(50, Bundle(VegaLiteMime :> "line_spec"), TRUE),
       AssignStmt(53, "vega_spec", Lit(vega_spec)),
       DisplayStmt(117, Bundle(VegaLiteMime :> "vega_spec"), TRUE),
       AssignStmt(120, "scatter_spec", Lit(scatter_spec)),
       DisplayStmt(145, Bundle(VegaLiteMime :> "scatter_spec"), TRUE) >>

Prog_vega_line_twice ==
    << ImportStmt(5, "IPython", {"display"}),
       AssignStmt(7, "vegalite_spec", Lit(vegalite_spec)),
       DisplayStmt(27, Bundle(VegaLiteMime :> "vegalite_spec"), TRUE),
       AssignStmt(30, "line_spec", Lit(line_spec)),
       DisplayStmt(50, Bundle(VegaLiteMime :> "line_spec"), TRUE),
       AssignStmt(53, "vega_spec", Lit(vega_spec)),
       DisplayStmt(117, Bundle(VegaLiteMime :> "line_spec"), TRUE),
       AssignStmt(120, "scatter_spec", Lit(scatter_spec)),
       DisplayStmt(145, Bundle(VegaLiteMime :> "scatter_spec"), TRUE) >>

Prog_vega ==
    << ImportStmt(5, "IPython", {"display"}),
       AssignStmt(7, "vegalite_spec", Lit(vegalite_spec)),
       DisplayStmt(27, Bundle(VegaLiteMime :> "vegalite_spec"), TRUE),
       AssignStmt(30, "line_spec", Lit(line_spec)),
       DisplayStmt(50, Bundle(VegaLiteMime :> "line_spec"), TRUE),
       AssignStmt(53, "vega_spec", Lit(vega_spec)),
       DisplayStmt(117, Bundle(VegaMime :> "vega_spec"), TRUE),
       AssignStmt(120, "scatter_spec", Lit(scatter_spec)),
       DisplayStmt(145, Bundle(VegaLiteMime :> "scatter_spec"), TRUE) >>

BrunoUrl ==
    "https://raw.githubusercontent.com/plotly/datasets/master/api_docs/mt_bruno_elevation.csv"

XYZ(x, y, z) == Dict("x" :> x @@ "y" :> y @@ "z" :> z)

camera ==
    Dict("up" :> XYZ(IntV(0), IntV(0), IntV(1))
      @@ "center" :> XYZ(IntV(0), IntV(0), IntV(0))
      @@ "eye" :> XYZ(FloatV(125, 100), FloatV(125, 100), FloatV(125, 100)))

Prog_plotly ==
    << ImportStmt(6, "plotly", {"go"}),
       ImportStmt(7, "pandas", {"pd"}),
       ReadCsvStmt(10, "z_data", Lit(StrV(BrunoUrl))),
       FigureStmt(12, "fig", "z_data"),
       UpdateLayoutStmt(13, "fig",
            "title" :> Lit(StrV("Mt Bruno Elevation"))
         @@ "width" :> Lit(IntV(500))
         @@ "height" :> Lit(IntV(500))
         @@ "margin" :> Lit(Dict("t" :> IntV(40) @@ "r" :> IntV(0)
                                 @@ "l" :> IntV(20) @@ "b" :> IntV(20)))),
       AssignStmt(20, "camera", Lit(camera)),
       UpdateLayoutStmt(25, "fig", "scene_camera" :> Var("camera")),
       ImportStmt(29, "IPython", {"display"}),
       DisplayStmt(30, Var("fig"), FALSE) >>

Prog_matplotlib ==
    << ImportStmt(5, "matplotlib", {"matplotlib"}),
       UseStmt(6, "Qt5Agg"),
       ImportStmt(8, "matplotlib", {"plt"}),
       ImportStmt(9, "numpy", {"np"}),
       LinspaceStmt(11, "t", 0, 20, 500),
       PlotStmt(12, "t"),
       ShowStmt(14) >>

IrisUrl == "https://archive.ics.uci.edu/ml/machine-learning-databases/iris/iris.data"

Prog_pandas ==
    << ImportStmt(5, "pandas", {"pd"}),
       SetOptionStmt(7, "display.html.table_schema", BoolV(TRUE)),
       SetOptionStmt(8, "display.max_rows", None),
       AssignStmt(10, "iris_url", Lit(StrV(IrisUrl))),
       ReadCsvStmt(12, "df1", Var("iris_url")),
       ExprStmt(14, "df1") >>

\* the string of lines 7-38, line by line; each backquote of the source is
\* written as an apostrophe, which a TLA+ string can hold
MarkdownText ==
    << "",
       "# Heading 1",
       "## Heading 2",
       "### Heading 3",
       "",
       "**Bold text** and *italic text*",
       "",
       "- List item 1",
       "- List item 2",
       "- List item 3",
       "",
       "1. Numbered item",
       "2. Numbered item",
       "",
       "'inline code'",
       "",
       "'''python",
       "def hello():",
       "    print(\"code block\")",
       "'''",
       "",
       "> Blockquote text",
       "",
       "[Link text](https://example.com)",
       "",
       "---",
       "",
       "| Column 1 | Column 2 |",
       "|----------|----------|",
       "| Cell 1   | Cell 2   |",
       "| Cell 3   | Cell 4   |",
       "" >>

Prog_markdown ==
    << ImportStmt(4, "IPython", {"display", "Markdown"}),
       DisplayStmt(7, Call("Markdown", MarkdownText), FALSE) >>

Prog_altair ==
    << ImportStmt(5, "altair", {"alt"}),
       ImportStmt(7, "vega_datasets", {"data"}),
       LoadDatasetStmt(8, "iris", "iris"),
       ChartStmt(9, "spec", "iris", "point",
            "x" :> "petalLength" @@ "y" :> "petalWidth" @@ "color" :> "species"),
       ExprStmt(14, "spec") >>

Scripts ==
    {"ex-vega.py", "ex-plotly-2.py", "ex-matplotlib_1.py", "ex-pandas-2.py",
     "ex-markdown-test.py", "ex-altair.py"}

Program(s) ==
    CASE s = "ex-vega.py" -> Prog_vega
      [] s = "ex-plotly-2.py" -> Prog_plotly
      [] s = "ex-matplotlib_1.py" -> Prog_matplotlib
      [] s = "ex-pandas-2.py" -> Prog_pandas
      [] s = "ex-markdown-test.py" -> Prog_markdown
      [] s = "ex-altair.py" -> Prog_altair

\* the packages the scripts import; each may or may not be installed
Packages ==
    {"IPython", "plotly", "pandas", "matplotlib", "numpy", "altair", "vega_datasets"}

(***************************************************************************)
(* The environment a run starts in.                                        *)
(***************************************************************************)
MaxRows == 2
CellValues == {0, 1}
\* the tables the remote URL may serve: up to MaxRows rows of one cell
RemoteTables == UNION {[1..n -> CellValues] : n \in 0..MaxRows}

\* a setting no statement has written yet
Default == [default |-> TRUE]
EmptyMap == [k \in {} |-> Default]

Init ==
    /\ script \in Scripts
    /\ pc = 1
    /\ status = "running"
    /\ ns = EmptyMap
    /\ out = << >>
    /\ globals = [options |-> ("display.html.table_schema" :> Default
                               @@ "display.max_rows" :> Default),
                  backend |-> Default,
                  figure |-> << >>]
    /\ attempts = [i \in DOMAIN Program(script) |-> 0]
    /\ raised = << >>
    /\ installed \in SUBSET Packages
    /\ net \in {"up", "down"}
    /\ remote \in RemoteTables

(***************************************************************************)
(* Running a statement.                                                    *)
(***************************************************************************)
Stmt == Program(script)[pc]

RunningAfterError == status \in {"running", "error"} /\ pc \in DOMAIN Program(script)

\* the interpreter runs the next statement only while no exception is pending
Running == status = "running" /\ pc \in DOMAIN Program(script)

At(op) == Running /\ Stmt.op = op
Bound == Stmt.uses \subseteq DOMAIN ns
Bind(env, name, v) == (name :> v) @@ env

\* the statement completes: control passes to the next line
Finish(env, o, g) ==
    /\ ns' = env
    /\ out' = o
    /\ globals' = g
    /\ pc' = pc + 1
    /\ status' = IF pc = Len(Program(script)) THEN "done" ELSE "running"
    /\ attempts' = [attempts EXCEPT ![pc] = @ + 1]
    /\ UNCHANGED <<script, raised, installed, net, remote>>

\* the statement raises: nothing catches it, the script ends there
Raise(error) ==
    /\ status' = "error"
    /\ raised' = Append(raised, [at |-> pc, error |-> error])
    /\ attempts' = [attempts EXCEPT ![pc] = @ + 1]
    /\ UNCHANGED <<script, pc, ns, out, globals, installed, net, remote>>

\* import package / from package import names
Import ==
    /\ At("import")
    /\ IF Stmt.package \in installed
       THEN Finish([n \in DOMAIN ns \cup Stmt.binds |->
                        IF n \in Stmt.binds
                        THEN [module |-> Stmt.package, name |-> n]
                        ELSE ns[n]],
                   out, globals)
       ELSE Raise("ModuleNotFoundError")

\* target = <literal or name>
Assign ==
    /\ At("assign")
    /\ IF Bound
       THEN Finish(Bind(ns, Stmt.target, Eval(Stmt.expr, ns)), out, globals)
       ELSE Raise("NameError")

\* target = pd.read_csv(url)
ReadCsv ==
    /\ At("read_csv")
    /\ IF ~Bound THEN Raise("NameError")
       ELSE IF net = "down" THEN Raise("URLError")
       ELSE Finish(Bind(ns, Stmt.target,
                        [frame |-> remote, url |-> Eval(Stmt.url, ns)]),
                   out, globals)

\* fig = go.Figure(data=go.Surface(z=z_data, showscale=False))
Figure ==
    /\ At("figure")
    /\ IF Bound
       THEN Finish(Bind(ns, Stmt.target,
                        [figure |-> [data |-> [type |-> "surface",
                                               z |-> ns[Stmt.z],
                                               showscale |-> BoolV(FALSE)],
                                     layout |-> EmptyMap]]),
                   out, globals)
       ELSE Raise("NameError")

\* the layout of figure f after f.update_layout(**kwargs): the keywords given
\* replace or extend the properties already set
UpdatedLayout(layout, kwargs, env) ==
    [k \in DOMAIN layout \cup DOMAIN kwargs |->
        IF k \in DOMAIN kwargs THEN Eval(kwargs[k], env) ELSE layout[k]]

\* fig.update_layout(...): changes the figure fig names, in place
UpdateLayout ==
    /\ At("update_layout")
    /\ IF Bound
       THEN Finish([ns EXCEPT ![Stmt.obj].figure.layout =
                        UpdatedLayout(@, Stmt.kwargs, ns)],
                   out, globals)
       ELSE Raise("NameError")

\* display(x) / display({mime: x}, raw=True): the sink takes the payload or
\* rejects it with an exception
Display ==
    /\ At("display")
    /\ IF ~Bound THEN Raise("NameError")
       ELSE \E accepted \in BOOLEAN :
              IF accepted
              THEN Finish(ns,
                          Append(out, [at |-> pc, via |-> "display",
                                       raw |-> Stmt.raw,
                                       value |-> Eval(Stmt.expr, ns)]),
                          globals)
              ELSE Raise("DisplayError")

\* pd.options.display.<option> = value
SetOption ==
    /\ At("set_option")
    /\ IF Bound
       THEN Finish(ns, out, [globals EXCEPT !.options[Stmt.option] = Stmt.value])
       ELSE Raise("NameError")

\* matplotlib.use(backend)
Use ==
    /\ At("use")
    /\ IF Bound
       THEN Finish(ns, out, [globals EXCEPT !.backend = StrV(Stmt.backend)])
       ELSE Raise("NameError")

\* t = np.linspace(start, stop, num)
Linspace ==
    /\ At("linspace")
    /\ IF Bound
       THEN Finish(Bind(ns, Stmt.target,
                        [linspace |-> <<Stmt.start, Stmt.stop, Stmt.num>>]),
                   out, globals)
       ELSE Raise("NameError")

\* plt.plot(t, np.sin(t)): draws on pyplot's current figure
Plot ==
    /\ At("plot")
    /\ IF Bound
       THEN Finish(ns, out,
                   [globals EXCEPT !.figure =
                        Append(@, [x |-> ns[Stmt.x], y |-> [sin |-> ns[Stmt.x]]])])
       ELSE Raise("NameError")

\* plt.show(): shows pyplot's current figure
Show ==
    /\ At("show")
    /\ IF Bound
       THEN Finish(ns,
                   Append(out, [at |-> pc, via |-> "show", raw |-> FALSE,
                                value |-> [pyplot |-> globals.figure]]),
                   globals)
       ELSE Raise("NameError")

\* iris = data.iris()
LoadDataset ==
    /\ At("load_dataset")
    /\ IF Bound
       THEN Finish(Bind(ns, Stmt.target, [dataset |-> Stmt.name]), out, globals)
       ELSE Raise("NameError")

ChartMutatingData ==
    /\ At("chart")
    /\ IF Bound
       THEN Finish(Bind(Bind(ns, Stmt.target,
                             [chart |-> [data |-> ns[Stmt.frame],
                                         mark |-> Stmt.mark,
                                         encoding |-> Stmt.encoding]]),
                        Stmt.frame, [dataset |-> "iris", encoded |-> TRUE]),
                   out, globals)
       ELSE Raise("NameError")

\* spec = alt.Chart(iris).mark_point().encode(x=..., y=..., color=...)
Chart ==
    /\ At("chart")
    /\ IF Bound
       THEN Finish(Bind(ns, Stmt.target,
                        [chart |-> [data |-> ns[Stmt.frame],
                                    mark |-> Stmt.mark,
                                    encoding |-> Stmt.encoding]]),
                   out, globals)
       ELSE Raise("NameError")

\* a bare name as the last statement: the host shows its value as the result
Expr ==
    /\ At("expr")
    /\ IF Bound
       THEN Finish(ns,
                   Append(out, [at |-> pc, via |-> "expr", raw |-> FALSE,
                                value |-> ns[Stmt.name]]),
                   globals)
       ELSE Raise("NameError")

Next ==
    \/ Import
    \/ Assign
    \/ ReadCsv
    \/ Figure
    \/ UpdateLayout
    \/ Display
    \/ SetOption
    \/ Use
    \/ Linspace
    \/ Plot
    \/ Show
    \/ LoadDataset
    \/ Chart
    \/ Expr

Spec == Init /\ [][Next]_vars

(***************************************************************************)
(* Reading a chart document: its datasets and the fields its channels      *)
(* reference.                                                              *)
(***************************************************************************)
\* the documents a display call of ex-vega.py handed over, with the MIME key
Handed ==
    IF script = "ex-vega.py"
    THEN UNION {{[at |-> out[i].at, mime |-> m, doc |-> Get(out[i].value, m)]
                    : m \in Keys(out[i].value)} : i \in DOMAIN out}
    ELSE {}

Description(doc) == Get(doc, "description").str

\* the channel entries of a Vega-Lite encoding, tooltip entries included
VLChannels(doc) ==
    LET enc == Get(doc, "encoding")
    IN  UNION {IF IsList(Get(enc, k)) THEN Range(Items(Get(enc, k)))
               ELSE {Get(enc, k)} : k \in Keys(enc)}

\* the data set of a Vega document that is named name
NamedData(doc, name) ==
    CHOOSE d \in Range(Items(Get(doc, "data"))) : Get(d, "name") = name

\* the {"field": ...} entries of a Vega mark's encode blocks
MarkFields(mk) ==
    LET enc == Get(mk, "encode")
    IN  UNION {{Get(Get(Get(enc, b), p), "field").str
                    : p \in {q \in Keys(Get(enc, b)) : HasKey(Get(Get(enc, b), q), "field")}}
               : b \in Keys(enc)}

\* every (data set, field) pair a document's channels and scale domains reference
FieldRefs(doc) ==
    IF HasKey(doc, "encoding")
    THEN {[dataset |-> Get(doc, "data"), field |-> Get(c, "field").str]
              : c \in VLChannels(doc)}
    ELSE UNION {{[dataset |-> NamedData(doc, Get(Get(mk, "from"), "data")),
                  field |-> f] : f \in MarkFields(mk)}
                    : mk \in Range(Items(Get(doc, "marks")))}
         \cup {[dataset |-> NamedData(doc, Get(Get(sc, "domain"), "data")),
                field |-> Get(Get(sc, "domain"), "field").str]
                   : sc \in {x \in Range(Items(Get(doc, "scales")))
                                : HasKey(Get(x, "domain"), "field")}}

\* the literal data sets of a document
Datasets(doc) ==
    IF IsList(Get(doc, "data")) THEN Range(Items(Get(doc, "data")))
    ELSE {Get(doc, "data")}

Records(d) == Items(Get(d, "values"))

\* the fields a data set's pie transform adds to each record
PieFields(d) ==
    IF HasKey(d, "transform")
       /\ \E t \in Range(Items(Get(d, "transform"))) : Get(t, "type") = StrV("pie")
    THEN {"startAngle", "endAngle"}
    ELSE {}

AllFourDisplayed == script = "ex-vega.py" /\ status = "done" /\ Len(out) = 4

(***************************************************************************)
(* C1 (as stated): every field a channel, an encode entry or a scale       *)
(* domain references is a key of every literal record of the data set it   *)
(* is bound to.                                                            *)
(***************************************************************************)
C1_FieldsAreLiteralKeys ==
    \A h \in Handed : \A ref \in FieldRefs(h.doc) :
        \A i \in DOMAIN Records(ref.dataset) :
            ref.field \in Keys(Records(ref.dataset)[i])

(***************************************************************************)
(* C1 (amended): every referenced field is a key of every literal record   *)
(* of its data set, or the data set carries a pie transform and the field  *)
(* is startAngle or endAngle, which that transform adds.                   *)
(***************************************************************************)
C1_FieldsAreKeysOrPieOutputs ==
    \A h \in Handed : \A ref \in FieldRefs(h.doc) :
        \A i \in DOMAIN Records(ref.dataset) :
            \/ ref.field \in Keys(Records(ref.dataset)[i])
            \/ ref.field \in PieFields(ref.dataset)

C1_Witness ==
    /\ AllFourDisplayed
    /\ \E h \in Handed : \E ref \in FieldRefs(h.doc) :
          /\ ref.field \in PieFields(ref.dataset)
          /\ Records(ref.dataset) # << >>
    /\ \E h \in Handed : \E ref \in FieldRefs(h.doc) : ref.field = "label"

(***************************************************************************)
(* C2: every document handed to display in ex-vega.py has a $schema field  *)
(* whose value is one of the two grammar URLs.                             *)
(***************************************************************************)
C2_SchemaRecognized ==
    \A h \in Handed :
        /\ HasKey(h.doc, "$schema")
        /\ Get(h.doc, "$schema") \in {StrV(VegaLiteSchema), StrV(VegaSchema)}

C2_Witness ==
    /\ AllFourDisplayed
    /\ \E h \in Handed : Get(h.doc, "$schema") = StrV(VegaSchema)
    /\ \E h \in Handed : Get(h.doc, "$schema") = StrV(VegaLiteSchema)

(***************************************************************************)
(* C3: every data set handed to display has as many records as the source  *)
(* writes literal entries (5, 6, 5 and 5), all records of one data set     *)
(* have the same fields, and the bar chart's five records have exactly the *)
(* fields category and value.                                              *)
(***************************************************************************)
LiteralEntries(doc) ==
    CASE Description(doc) = "A simple bar chart" -> 5
      [] Description(doc) = "A line chart with points" -> 6
      [] Description(doc) = "A basic pie chart" -> 5
      [] Description(doc) = "Scatter plot with tooltips" -> 5

C3_RecordCounts ==
    \A h \in Handed : \A d \in Datasets(h.doc) :
        /\ Len(Records(d)) = LiteralEntries(h.doc)
        /\ \A i, j \in DOMAIN Records(d) : Keys(Records(d)[i]) = Keys(Records(d)[j])
        /\ Description(h.doc) = "A simple bar chart" =>
              \A i \in DOMAIN Records(d) : Keys(Records(d)[i]) = {"category", "value"}

C3_Witness ==
    /\ AllFourDisplayed
    /\ \E h \in Handed : Description(h.doc) = "A simple bar chart"
    /\ \E h \in Handed : Description(h.doc) = "A line chart with points"

(***************************************************************************)
(* C4: in every Vega-Lite document handed to display, a field encoded as   *)
(* quantitative holds a number in every record and a field encoded as      *)
(* nominal holds a string in every record, tooltip entries included.       *)
(***************************************************************************)
C4_TypesMatchData ==
    \A h \in Handed : HasKey(h.doc, "encoding") =>
        \A c \in VLChannels(h.doc) :
            \A i \in DOMAIN Records(Get(h.doc, "data")) :
                LET r == Records(Get(h.doc, "data"))[i]
                    f == Get(c, "field").str
                IN  /\ Get(c, "type") = StrV("quantitative") =>
                          f \in Keys(r) /\ IsNumber(Get(r, f))
                    /\ Get(c, "type") = StrV("nominal") =>
                          f \in Keys(r) /\ IsStr(Get(r, f))

C4_Witness ==
    /\ AllFourDisplayed
    /\ \E h \in Handed :
          /\ HasKey(h.doc, "encoding")
          /\ HasKey(Get(h.doc, "encoding"), "tooltip")
          /\ \E c \in VLChannels(h.doc) : Get(c, "type") = StrV("nominal")
          /\ \E c \in VLChannels(h.doc) : Get(c, "type") = StrV("quantitative")

(***************************************************************************)
(* C10: every display call of ex-vega.py passes a payload with exactly one *)
(* MIME key, and that key names the grammar of the document's $schema.     *)
(***************************************************************************)
MimeOf(schema) ==
    CASE schema = StrV(VegaLiteSchema) -> VegaLiteMime
      [] schema = StrV(VegaSchema) -> VegaMime

C10_MimeMatchesSchema ==
    script = "ex-vega.py" =>
        \A i \in DOMAIN out :
            /\ out[i].raw
            /\ Cardinality(Keys(out[i].value)) = 1
            /\ \A m \in Keys(out[i].value) :
                  m = MimeOf(Get(Get(out[i].value, m), "$schema"))

C10_Witness ==
    /\ AllFourDisplayed
    /\ \E i \in DOMAIN out : Keys(out[i].value) = {VegaMime}
    /\ \E i \in DOMAIN out : Keys(out[i].value) = {VegaLiteMime}

(***************************************************************************)
(* C7 (as stated): once a dataset or chart object exists, every bound name *)
(* keeps its value and no library-wide setting changes.                    *)
(***************************************************************************)
DataAndChartNames ==
    {"vegalite_spec", "line_spec", "vega_spec", "scatter_spec",
     "z_data", "fig", "df1", "t", "iris", "spec"}

C8_FailStop ==
    /\ \A i \in DOMAIN attempts : attempts[i] <= 1
    /\ Len(raised) <= 1
    /\ status = "error" <=> raised # << >>
    /\ raised # << >> =>
          /\ pc = raised[1].at
          /\ attempts[pc] = 1
          /\ \A i \in DOMAIN attempts : i > pc => attempts[i] = 0
          /\ \A i \in DOMAIN out : out[i].at < pc
          /\ Stmt.op = "read_csv" => out = << >>
          /\ script = "ex-vega.py" /\ Stmt.op = "display" =>
                Len(out) = Cardinality({i \in 1..(pc - 1) :
                                           Program(script)[i].op = "display"})

C8_Witness ==
    /\ script = "ex-vega.py"
    /\ status = "error"
    /\ raised = <<[at |-> 7, error |-> "DisplayError"]>>
    /\ Len(out) = 2

C8_WitnessFetch ==
    /\ script = "ex-plotly-2.py"
    /\ status = "error"
    /\ Len(raised) = 1
    /\ raised[1].error = "URLError"
    /\ out = << >>

(***************************************************************************)
(* C9: statements run one after another, each once, in source order; what *)
(* the display sink receives was complete when handed over (data fetched,  *)
(* every layout update applied); ex-vega.py hands over the bar, line, pie  *)
(* and scatter documents in that order, each once, display being imported  *)
(* first, and a run without failure hands over all four.                   *)
(***************************************************************************)
DisplayOrder ==
    << "A simple bar chart", "A line chart with points",
       "A basic pie chart", "Scatter plot with tooltips" >>

C9_LinearOrder ==
    /\ \A i \in DOMAIN attempts :
          attempts[i] = IF i < pc \/ (i = pc /\ status = "error") THEN 1 ELSE 0
    /\ \A i \in DOMAIN out :
          /\ out[i].at < pc
          /\ \A j \in DOMAIN out : i < j => out[i].at < out[j].at
          /\ out[i].via = "display" => "display" \in DOMAIN ns
    /\ script = "ex-vega.py" =>
          /\ Len(out) <= Len(DisplayOrder)
          /\ \A i \in DOMAIN out : \A m \in Keys(out[i].value) :
                Description(Get(out[i].value, m)) = DisplayOrder[i]
          /\ status = "done" => Len(out) = Len(DisplayOrder)
    /\ script = "ex-plotly-2.py" =>
          /\ Len(out) <= 1
          /\ status = "done" => Len(out) = 1
          /\ \A i \in DOMAIN out :
                /\ out[i].value.figure.data.z =
                      [frame |-> remote, url |-> StrV(BrunoUrl)]
                /\ DOMAIN out[i].value.figure.layout =
                      {"title", "width", "height", "margin", "scene_camera"}
                /\ out[i].value.figure.layout["scene_camera"] = camera
    /\ script = "ex-pandas-2.py" =>
          \A i \in DOMAIN out :
              out[i].value = [frame |-> remote, url |-> StrV(IrisUrl)]

C9_Witness ==
    /\ AllFourDisplayed
    /\ "display" \in DOMAIN ns
    /\ \A i \in DOMAIN attempts : attempts[i] = 1
    /\ <<out[1].at, out[2].at, out[3].at, out[4].at>> = <<3, 5, 7, 9>>

====
